---- MODULE Spec2Model ----
(***************************************************************************)
(* A model of build.py, the incremental build driver of sbox-win-docker:   *)
(* change detection (git status + owner resolution), the per-project hash  *)
(* cache, fresh-clone detection, the scheduling in main() and its          *)
(* try/finally post-actions.                                               *)
(*                                                                         *)
(* Strings are sequences of one-character strings, so that suffixes,       *)
(* replacements and lexicographic order are computed as Python computes    *)
(* them.  A Path is the sequence of its parts relative to ROOT; ROOT       *)
(* itself is the empty sequence.                                           *)
(***************************************************************************)
EXTENDS Integers, Sequences, FiniteSets, TLC

(***************************************************************************)
(* Characters and strings                                                  *)
(***************************************************************************)

\* The byte 0 that compute_project_hash feeds between a path and a content.
NUL == "NUL"

\* The characters the model uses, in ascending code-point order.
AsciiOrder ==
    << NUL, "\n", " ", ".", "/", "0", "1", "2", "5", "6", "?",
       "B", "D", "M", "T", "\\", "_",
       "a", "b", "c", "d", "e", "f", "g", "h", "i", "j", "l", "m", "n", "o",
       "p", "r", "s", "t", "u", "v", "x", "y", "z" >>

CodeTable ==
    [c \in {AsciiOrder[i] : i \in 1..Len(AsciiOrder)} |->
        CHOOSE i \in 1..Len(AsciiOrder) : AsciiOrder[i] = c]

CharCode(c) == CodeTable[c]

Min2(a, b) == IF a < b THEN a ELSE b

SetMax(S) == CHOOSE x \in S : \A y \in S : y <= x

\* s < t for two Python strings (code-point lexicographic order).
StrLess(s, t) ==
    \E k \in 1..(Min2(Len(s), Len(t)) + 1) :
        /\ \A i \in 1..(k - 1) : s[i] = t[i]
        /\ \/ k > Len(s) /\ k <= Len(t)
           \/ k <= Len(s) /\ k <= Len(t) /\ CharCode(s[k]) < CharCode(t[k])

EndsWith(s, suf) ==
    /\ Len(suf) <= Len(s)
    /\ SubSeq(s, Len(s) - Len(suf) + 1, Len(s)) = suf

RECURSIVE Replace(_, _, _)
\* str.replace(ch, rep) for a one-character ch.
Replace(s, ch, rep) ==
    IF s = <<>> THEN <<>>
    ELSE (IF Head(s) = ch THEN rep ELSE <<Head(s)>>) \o Replace(Tail(s), ch, rep)

RECURSIVE Join(_, _)
\* sep.join(parts)
Join(parts, sep) ==
    IF parts = <<>> THEN <<>>
    ELSE IF Len(parts) = 1 THEN parts[1]
    ELSE parts[1] \o sep \o Join(Tail(parts), sep)

\* pathlib's PurePath.suffix of a file name.
Suffix(name) ==
    LET dots == {i \in 1..Len(name) : name[i] = "."}
    IN  IF dots = {} THEN <<>>
        ELSE LET i == SetMax(dots)
             IN  IF i > 1 /\ i < Len(name) THEN SubSeq(name, i, Len(name))
                 ELSE <<>>

(***************************************************************************)
(* Module constants of build.py                                            *)
(***************************************************************************)

IGNORE_DIRS ==
    { <<".", "g", "i", "t">>,
      <<".", "v", "s", "c", "o", "d", "e">>,
      <<".", "i", "d", "e", "a">>,
      <<".", "v", "s">>,
      <<"b", "i", "n">>,
      <<"o", "b", "j">>,
      <<".", "s", "b", "o", "x", "b", "u", "i", "l", "d", "_", "c", "a", "c", "h", "e">> }

IGNORE_SUFFIXES ==
    { <<".", "u", "s", "e", "r">>,
      <<".", "s", "u", "o">>,
      <<".", "c", "a", "c", "h", "e">>,
      <<".", "l", "o", "g">> }

DOT_CSPROJ == <<".", "c", "s", "p", "r", "o", "j">>

RELEVANT_SUFFIXES ==
    { <<".", "c", "s">>,
      DOT_CSPROJ,
      <<".", "p", "r", "o", "p", "s">>,
      <<".", "t", "a", "r", "g", "e", "t", "s">>,
      <<".", "s", "l", "n">>,
      <<".", "s", "l", "n", "x">>,
      <<".", "j", "s", "o", "n">>,
      <<".", "r", "a", "z", "o", "r">>,
      <<".", "t", "t">> }

\* The two shared-config file names find_directory_build_files looks for.
DirectoryBuildProps ==
    <<"D", "i", "r", "e", "c", "t", "o", "r", "y", ".", "B", "u", "i", "l", "d",
      ".", "p", "r", "o", "p", "s">>

DirectoryBuildTargets ==
    <<"D", "i", "r", "e", "c", "t", "o", "r", "y", ".", "B", "u", "i", "l", "d",
      ".", "t", "a", "r", "g", "e", "t", "s">>

\* ROOT, as a path relative to itself.
ROOT == <<>>

(***************************************************************************)
(* Paths                                                                   *)
(***************************************************************************)

\* p < q for two pathlib Paths: their lists of parts compare lexicographically.
PathLess(p, q) ==
    \E k \in 1..(Min2(Len(p), Len(q)) + 1) :
        /\ \A i \in 1..(k - 1) : p[i] = q[i]
        /\ \/ k > Len(p) /\ k <= Len(q)
           \/ k <= Len(p) /\ k <= Len(q) /\ StrLess(p[k], q[k])

\* Path.parent
Parent(p) == IF p = <<>> THEN <<>> ELSE SubSeq(p, 1, Len(p) - 1)

\* Path.name
Name(p) == p[Len(p)]

IsUnder(dir, p) == Len(dir) < Len(p) /\ SubSeq(p, 1, Len(dir)) = dir

\* str(p.relative_to(ROOT)).replace("\\", "/")
RelStr(p) == Replace(Join(p, <<"/">>), "\\", <<"/">>)

RECURSIVE SortedDesc(_)
\* A sort that orders descending.
SortedDesc(S) ==
    IF S = {} THEN <<>>
    ELSE LET m == CHOOSE x \in S : \A y \in S \ {x} : PathLess(y, x)
         IN  <<m>> \o SortedDesc(S \ {m})

RECURSIVE SortedAsc(_)
SortedAsc(S) ==
    IF S = {} THEN <<>>
    ELSE LET m == CHOOSE x \in S : \A y \in S \ {x} : PathLess(x, y)
         IN  <<m>> \o SortedAsc(S \ {m})

\* sorted(S) of a set of Paths.
Sorted(S) == SortedAsc(S)

Range(s) == {s[i] : i \in 1..Len(s)}

(***************************************************************************)
(* State                                                                   *)
(***************************************************************************)

\* The workspace on disk, which outlives an invocation.
VARIABLES
    fs,             \* the regular files under ROOT (outside CACHE_DIR): path -> content bytes
    cacheDir,       \* CACHE_DIR.exists()
    cache,          \* the files of CACHE_DIR: file name -> text
    patchFlag,      \* CODEGEN_PATCH_FLAG.exists()
    codegenTargets, \* the content of engine/CodeGen.Targets, or "absent"
    codegenBackup   \* the content of CodeGen.Targets.backup, or "absent"

\* One invocation of main(): its position, its inputs, its locals.
VARIABLES
    pc,                     \* the position in main(); "idle" between invocations
    args,                   \* the parsed command line
    no_prompt,              \* args.no_prompt or NO_PROMPT=1
    sentinels,              \* the sentinel artifacts that exist
    driver,                 \* SBOXBUILD_CSPROJ.exists()
    hash_cache_enabled,
    codegen_patch_applied,
    something_to_build,
    changed,                \* the ChangeSet: what git_changed_files() returned
    projects,               \* the candidate units, in processing order
    idx,                    \* the position of the loop `for p in projects`
    result,                 \* how main() ended: its return value, or an exception
    log                     \* what the invocation has called so far

\* Operations applied directly, outside main().
VARIABLES
    last,       \* the latest operation applied (op, its argument, its result)
    called      \* the units should_build_hash_cache or force_update_hash was
                \* called on since the last mutation of a file

diskVars == <<fs, cacheDir, cache, patchFlag, codegenTargets, codegenBackup>>

mainVars ==
    <<pc, args, no_prompt, sentinels, driver, hash_cache_enabled,
      codegen_patch_applied, something_to_build, changed, projects, idx,
      result, log>>

directVars == <<last, called>>

vars == <<diskVars, mainVars, directVars>>

(***************************************************************************)
(* Fingerprints (compute_project_hash) and the cache records               *)
(***************************************************************************)

\* find_all_csprojs(): sorted(ROOT.rglob("*.csproj"))
find_all_csprojs(files) ==
    Sorted({p \in DOMAIN files : EndsWith(Name(p), DOT_CSPROJ)})

\* iter_project_inputs(project_dir): the os.walk below project_dir, ignored
\* directories pruned, files filtered by suffix.
iter_project_inputs(project_dir, files) ==
    {p \in DOMAIN files :
        /\ IsUnder(project_dir, p)
        /\ \A i \in (Len(project_dir) + 1)..(Len(p) - 1) : p[i] \notin IGNORE_DIRS
        /\ Suffix(Name(p)) \notin IGNORE_SUFFIXES
        /\ Suffix(Name(p)) \in RELEVANT_SUFFIXES}

RECURSIVE find_directory_build_files_below_root(_, _)
\* A walk that stops before ROOT instead of after it.
find_directory_build_files_below_root(p, files) ==
    LET props   == p \o <<DirectoryBuildProps>>
        targets == p \o <<DirectoryBuildTargets>>
        here    == (IF props \in DOMAIN files THEN <<props>> ELSE <<>>)
                   \o (IF targets \in DOMAIN files THEN <<targets>> ELSE <<>>)
    IN  IF p = ROOT THEN <<>>
        ELSE here \o find_directory_build_files_below_root(Parent(p), files)

RECURSIVE find_directory_build_files(_, _)
\* find_directory_build_files(start_dir): from start_dir up to ROOT, inclusive.
find_directory_build_files(p, files) ==
    LET props   == p \o <<DirectoryBuildProps>>
        targets == p \o <<DirectoryBuildTargets>>
        here    == (IF props \in DOMAIN files THEN <<props>> ELSE <<>>)
                   \o (IF targets \in DOMAIN files THEN <<targets>> ELSE <<>>)
    IN  IF p = ROOT THEN here
        ELSE here \o find_directory_build_files(Parent(p), files)

RECURSIVE HashStream(_, _)
\* The bytes fed to the digest: for each input, in order, its relative path,
\* a zero byte, its content.
HashStream(inputs, files) ==
    IF inputs = <<>> THEN <<>>
    ELSE RelStr(Head(inputs)) \o <<NUL>> \o files[Head(inputs)]
         \o HashStream(Tail(inputs), files)

\* hashlib.sha256(...).hexdigest(), taken to be collision-free: the digest
\* text determines the stream.  It holds no whitespace and is never empty.
Sha256Hex(stream) == <<"5", "6", "_">> \o stream

\* The inputs of a project, deduplicated and sorted.
ProjectInputs(csproj, files) ==
    Sorted({csproj}
           \cup Range(find_directory_build_files(Parent(csproj), files))
           \cup iter_project_inputs(Parent(csproj), files))

compute_project_hash(csproj, files) ==
    Sha256Hex(HashStream(ProjectInputs(csproj, files), files))

DOT_SHA256 == <<".", "s", "h", "a", "2", "5", "6">>

\* cache_file_for(csproj): the name of the record's file in CACHE_DIR.
cache_file_for(csproj) ==
    Replace(Replace(Join(csproj, <<"/">>), "/", <<"_", "_">>), "\\", <<"_", "_">>)
    \o DOT_SHA256

IsSpace(c) == c \in {" ", "\n"}

RECURSIVE LStrip(_)
LStrip(s) == IF s # <<>> /\ IsSpace(Head(s)) THEN LStrip(Tail(s)) ELSE s

RECURSIVE RStrip(_)
RStrip(s) ==
    IF s # <<>> /\ IsSpace(s[Len(s)]) THEN RStrip(SubSeq(s, 1, Len(s) - 1)) ELSE s

\* str.strip()
Strip(s) == RStrip(LStrip(s))

\* cache_file.exists(), and cache_file.read_text().strip()
HasRecord(records, u) == cache_file_for(u) \in DOMAIN records

StoredHash(records, u) == Strip(records[cache_file_for(u)])

\* cache_file.write_text(new_hash + "\n")
WriteRecord(records, csproj, new_hash) ==
    [f \in DOMAIN records \cup {cache_file_for(csproj)} |->
        IF f = cache_file_for(csproj) THEN new_hash \o <<"\n">> ELSE records[f]]

\* A should_build_hash_cache that writes the record before it compares.
should_build_write_then_compare(csproj, files, records) ==
    LET new_hash   == compute_project_hash(csproj, files)
        cache_file == cache_file_for(csproj)
        written    == WriteRecord(records, csproj, new_hash)
    IN  IF Strip(written[cache_file]) = new_hash
        THEN [ret |-> FALSE, cache |-> written, wrote |-> TRUE]
        ELSE [ret |-> TRUE, cache |-> written, wrote |-> TRUE]

\* should_build_hash_cache(csproj): the returned decision and the cache after it.
should_build_hash_cache(csproj, files, records) ==
    LET new_hash   == compute_project_hash(csproj, files)
        cache_file == cache_file_for(csproj)
    IN  IF cache_file \in DOMAIN records /\ Strip(records[cache_file]) = new_hash
        THEN [ret |-> FALSE, cache |-> records, wrote |-> FALSE]
        ELSE [ret |-> TRUE, cache |-> WriteRecord(records, csproj, new_hash),
              wrote |-> TRUE]

\* force_update_hash(csproj): the cache after it.
force_update_hash(csproj, files, records) ==
    WriteRecord(records, csproj, compute_project_hash(csproj, files))

RECURSIVE ForceAll(_, _, _)
ForceAll(ps, files, records) ==
    IF ps = <<>> THEN records
    ELSE ForceAll(Tail(ps), files, force_update_hash(Head(ps), files, records))

\* init_hash_cache(): force_update_hash for every project, in order.
init_hash_cache(files, records) ==
    ForceAll(find_all_csprojs(files), files, records)

(***************************************************************************)
(* ChangeDetector (git_changed_files) and UnitResolver                     *)
(* (find_csproj_owners)                                                    *)
(***************************************************************************)

RECURSIVE Split(_, _)
\* str.split(ch): the pieces between the occurrences of ch.
Split(s, ch) ==
    LET at == {i \in 1..Len(s) : s[i] = ch}
    IN  IF at = {} THEN <<s>>
        ELSE LET i == CHOOSE j \in at : \A k \in at : j <= k
             IN  <<SubSeq(s, 1, i - 1)>> \o Split(SubSeq(s, i + 1, Len(s)), ch)

RECURSIVE LStripChars(_, _)
\* str.lstrip(chars): leading characters of the set chars removed.
LStripChars(s, chars) ==
    IF s # <<>> /\ Head(s) \in chars THEN LStripChars(Tail(s), chars) ELSE s

IsRealPart(part) == part # <<>> /\ part # <<".">>

\* Path(s) of a relative path string: its parts, empty and "." parts dropped.
ParsePath(s) == SelectSeq(Split(s, "/"), IsRealPart)

\* Path(s).suffix
PathSuffix(s) ==
    LET parts == ParsePath(s)
    IN  IF parts = <<>> THEN <<>> ELSE Suffix(parts[Len(parts)])

\* is_ignored(path)
is_ignored(path) ==
    LET stripped == LStripChars(Replace(path, "\\", <<"/">>), {".", "/"})
        parts    == Split(stripped, "/")
    IN  \/ \E i \in 1..(Len(parts) - 1) : parts[i] \in IGNORE_DIRS
        \/ PathSuffix(stripped) \in IGNORE_SUFFIXES

\* is_relevant(path)
is_relevant(path) ==
    /\ ~EndsWith(path, <<"/">>)
    /\ PathSuffix(path) \in RELEVANT_SUFFIXES

RECURSIVE SortedStrs(_)
\* sorted(S) of a set of strings.
SortedStrs(S) ==
    IF S = {} THEN <<>>
    ELSE LET m == CHOOSE x \in S : \A y \in S \ {x} : StrLess(x, y)
         IN  <<m>> \o SortedStrs(S \ {m})

\* The path an entry of `git status --porcelain -z` contributes, if any.
EntryPath(entry) == Strip(SubSeq(entry, 4, Len(entry)))

\* git_changed_files(), given the entries of the status output.
git_changed_files(entries) ==
    SortedStrs({EntryPath(e) : e \in
        {e \in Range(entries) :
            /\ e # <<>>
            /\ Len(e) >= 4
            /\ EntryPath(e) # <<>>
            /\ ~is_ignored(EntryPath(e))
            /\ is_relevant(EntryPath(e))}})

\* Path.exists(): a file, or a directory that holds one.
Exists(p, files) ==
    \/ p = ROOT
    \/ p \in DOMAIN files
    \/ \E q \in DOMAIN files : IsUnder(p, q)

\* sorted(p.glob("*.csproj"))
GlobCsproj(p, files) ==
    Sorted({q \in DOMAIN files : Parent(q) = p /\ EndsWith(Name(q), DOT_CSPROJ)})

RECURSIVE OwnerWalkIntoRoot(_, _)
\* An owner walk that also looks into ROOT.
OwnerWalkIntoRoot(p, files) ==
    LET csprojs == GlobCsproj(p, files)
    IN  IF csprojs # <<>> THEN {csprojs[1]}
        ELSE IF p = ROOT THEN {}
        ELSE OwnerWalkIntoRoot(Parent(p), files)

RECURSIVE OwnerWalk(_, _)
\* The while loop of find_csproj_owners: from directory p upwards, stopping
\* before ROOT, the first manifest of the first directory that holds one.
OwnerWalk(p, files) ==
    IF p = ROOT THEN {}
    ELSE LET csprojs == GlobCsproj(p, files)
         IN  IF csprojs # <<>> THEN {csprojs[1]}
             ELSE OwnerWalk(Parent(p), files)

\* find_csproj_owners(changed_files)
find_csproj_owners(changed_files, files) ==
    Sorted(UNION {
        IF Exists(ParsePath(f), files)
        THEN OwnerWalk(Parent(ParsePath(f)), files)
        ELSE {} : f \in Range(changed_files)})

(***************************************************************************)
(* The workspace the model explores                                        *)
(***************************************************************************)

\* File contents are drawn from the first NumContents of these byte strings.
NumContents == 2

\* The second one is the text "a/Directory.Build.targets" and a zero byte:
\* files are read as bytes, whatever they hold.
ContentList ==
    << <<>>, <<"a", "/">> \o DirectoryBuildTargets \o <<NUL>>, <<"1">>, <<"0">> >>

Contents == {ContentList[i] : i \in 1..NumContents}

U_CSPROJ == <<"u">> \o DOT_CSPROJ

V_CSPROJ == <<"v">> \o DOT_CSPROJ

T_CSPROJ == <<"t">> \o DOT_CSPROJ

R_CSPROJ == <<"r">> \o DOT_CSPROJ

X_CS == <<"x", ".", "c", "s">>

\* Directory.Build.props in ROOT: two levels above the unit a/b.
PropsRoot == <<DirectoryBuildProps>>

\* a/Directory.Build.targets: one level above the unit a/b.
TargetsA == << <<"a">>, DirectoryBuildTargets >>

\* The units a/b/u.csproj, a__b/u.csproj and c/v.csproj.
UnitAB == << <<"a">>, <<"b">>, U_CSPROJ >>

UnitA__B == << <<"a", "_", "_", "b">>, U_CSPROJ >>

UnitC == << <<"c">>, V_CSPROJ >>

\* a/b/x.cs, a source file of the unit a/b.
SourceAB == << <<"a">>, <<"b">>, X_CS >>

\* a/b/t.csproj: a second manifest of a/b, sorting before u.csproj.
UnitAB_T == << <<"a">>, <<"b">>, T_CSPROJ >>

\* r.csproj: a manifest in ROOT itself.
UnitRoot == << R_CSPROJ >>

\* a/b/d/y.cs: a source file one directory below the manifest of a/b.
SourceABD == << <<"a">>, <<"b">>, <<"d">>, <<"y", ".", "c", "s">> >>

\* a/z.cs: a source file with no manifest at or above it but ROOT's.
SourceA == << <<"a">>, <<"z", ".", "c", "s">> >>

\* c/g.cs: a path that is changed in some ChangeSets and never on disk.
DeletedC == << <<"c">>, <<"g", ".", "c", "s">> >>

\* Files every explored workspace holds, and files it may or may not hold.
FixedFiles == {UnitAB, UnitA__B, UnitC, SourceAB}

OptionalFiles == {PropsRoot, TargetsA}

\* Files whose content the model lets the user edit: the shared-config files.
EditableFiles == {PropsRoot, TargetsA}

Workspaces ==
    {w \in UNION { [FixedFiles \cup opt -> Contents] : opt \in SUBSET OptionalFiles } :
        \A p \in DOMAIN w \ EditableFiles : w[p] = ContentList[1]}

Units(files) == Range(find_all_csprojs(files))

NoOp == [op |-> "none", arg |-> <<>>, ret |-> FALSE, old |-> <<>>]

\* The command line with no flag given.
NoArgs ==
    [full |-> FALSE, no_auto_full |-> FALSE, enable_hash_cache |-> FALSE,
     enable_codegen_patch |-> FALSE, test |-> FALSE, format |-> FALSE,
     no_prompt |-> FALSE]

\* An invocation that has called nothing yet.
EmptyLog ==
    [prompts       |-> 0,      \* prompt_yes_no
     init_cache    |-> 0,      \* init_hash_cache
     hashes        |-> 0,      \* compute_project_hash
     cache_reads   |-> 0,      \* cache_file.read_text
     cache_writes  |-> 0,      \* cache_file.write_text
     format_runs   |-> 0,      \* the external format run
     full_builds   |-> 0,      \* full_build() reaching its external runs
     git_status    |-> 0,      \* git_changed_files
     owner_lookups |-> 0,      \* find_csproj_owners
     built         |-> <<>>,   \* build_project, in call order
     skipped       |-> <<>>,   \* units skipped on a hash match, in order
     test_runs     |-> 0,      \* the external test run
     restores      |-> 0,      \* restore_codegen_patch
     case_fixes    |-> 0,      \* fix_addon_code_case
     owner_fixes   |-> 0]      \* fix_ownership_since

\* main() has not ended.
NoResult == [kind |-> "none", rc |-> 0, at |-> "none"]

\* No invocation is running.
NoInvocation ==
    /\ pc = "idle"
    /\ args = NoArgs
    /\ no_prompt = FALSE
    /\ sentinels = {}
    /\ driver = FALSE
    /\ hash_cache_enabled = FALSE
    /\ codegen_patch_applied = FALSE
    /\ something_to_build = TRUE
    /\ changed = <<>>
    /\ projects = <<>>
    /\ idx = 0
    /\ result = NoResult
    /\ log = EmptyLog

(***************************************************************************)
(* SpecCache: should_build_hash_cache and force_update_hash called in any  *)
(* order on any unit, between edits, creations and deletions of files.     *)
(***************************************************************************)

InitCache ==
    /\ fs \in Workspaces
    /\ cacheDir = TRUE
    /\ cache = <<>>
    /\ patchFlag = FALSE
    /\ codegenTargets = "original"
    /\ codegenBackup = "absent"
    /\ NoInvocation
    /\ last = NoOp
    /\ called = {}

ShouldBuild(u) ==
    LET r == should_build_hash_cache(u, fs, cache)
    IN  /\ cache' = r.cache
        /\ last' = [op |-> "should_build", arg |-> u, ret |-> r.ret, old |-> <<>>]
        /\ called' = called \cup {u}
        /\ UNCHANGED <<fs, cacheDir, patchFlag, codegenTargets, codegenBackup, mainVars>>

ForceUpdate(u) ==
    /\ cache' = force_update_hash(u, fs, cache)
    /\ last' = [op |-> "force_update", arg |-> u, ret |-> FALSE, old |-> <<>>]
    /\ called' = called \cup {u}
    /\ UNCHANGED <<fs, cacheDir, patchFlag, codegenTargets, codegenBackup, mainVars>>

\* The user rewrites the content of an existing file.
EditFile(p, c) ==
    /\ p \in DOMAIN fs
    /\ c # fs[p]
    /\ fs' = [fs EXCEPT ![p] = c]
    /\ last' = [op |-> "edit", arg |-> p, ret |-> FALSE, old |-> fs[p]]
    /\ called' = {}
    /\ UNCHANGED <<cacheDir, cache, patchFlag, codegenTargets, codegenBackup, mainVars>>

\* The user adds a file.
CreateFile(p, c) ==
    /\ p \notin DOMAIN fs
    /\ fs' = [q \in DOMAIN fs \cup {p} |-> IF q = p THEN c ELSE fs[q]]
    /\ last' = [op |-> "create", arg |-> p, ret |-> FALSE, old |-> <<>>]
    /\ called' = {}
    /\ UNCHANGED <<cacheDir, cache, patchFlag, codegenTargets, codegenBackup, mainVars>>

\* The user removes a file.
DeleteFile(p) ==
    /\ p \in DOMAIN fs
    /\ fs' = [q \in DOMAIN fs \ {p} |-> fs[q]]
    /\ last' = [op |-> "delete", arg |-> p, ret |-> FALSE, old |-> fs[p]]
    /\ called' = {}
    /\ UNCHANGED <<cacheDir, cache, patchFlag, codegenTargets, codegenBackup, mainVars>>

NextCache ==
    \/ \E u \in Units(fs) : ShouldBuild(u)
    \/ \E u \in Units(fs) : ForceUpdate(u)
    \/ \E p \in EditableFiles, c \in Contents : EditFile(p, c)
    \/ \E p \in OptionalFiles, c \in Contents : CreateFile(p, c)
    \/ \E p \in OptionalFiles : DeleteFile(p)

SpecCache == InitCache /\ [][NextCache]_vars

(***************************************************************************)
(* Spec: invocations of main(), one after the other, on a workspace whose  *)
(* markers and cache records persist from one invocation to the next.      *)
(* Calls that only touch the filesystem are taken to succeed; an external  *)
(* process (run) may exit nonzero, and input() may fail.                   *)
(***************************************************************************)

min_hits == 4

\* The five sentinel artifacts, by their position in sentinel_paths.
SENTINEL_PATHS == 1..5

\* looks_like_fresh_clone(): existing is the set of sentinels that exist.
looks_like_fresh_clone_at_most(existing) ==
    Cardinality(existing \cap SENTINEL_PATHS) <= min_hits

looks_like_fresh_clone(existing) ==
    Cardinality(existing \cap SENTINEL_PATHS) < min_hits

\* The sentinel states invocations start in: 3, 4 and 5 of the 5 exist.
SentinelStates == { {1, 2, 3}, {2, 3, 4, 5}, 1..5 }

ArgSets ==
    [full : BOOLEAN, no_auto_full : BOOLEAN, enable_hash_cache : BOOLEAN,
     enable_codegen_patch : BOOLEAN, test : BOOLEAN, format : BOOLEAN,
     no_prompt : BOOLEAN]

\* An entry of `git status --porcelain -z`: two status letters, a space, the path.
StatusEntry(xy, path) == xy \o <<" ">> \o Join(path, <<"/">>)

\* The status outputs the model explores, split at the zero bytes: nothing
\* changed; one source file; an untracked manifest, a source file and a
\* staged manifest; a deleted file only.
GitStatusOutputs ==
    { << <<>> >>,
      << StatusEntry(<<" ", "M">>, SourceAB), <<>> >>,
      << StatusEntry(<<"?", "?">>, UnitC), StatusEntry(<<" ", "M">>, SourceAB),
         StatusEntry(<<"M", " ">>, UnitAB), <<>> >>,
      << StatusEntry(<<" ", "D">>, DeletedC), <<>> >> }

\* The workspaces invocations run on: with and without the unit a__b.
MainWorkspaces ==
    { [p \in FixedFiles |-> ContentList[1]],
      [p \in FixedFiles \ {UnitA__B} |-> ContentList[1]] }

\* main() returned rc at the stage at.
Returned(rc, at) == [kind |-> "returned", rc |-> rc, at |-> at]

\* An exception left main() from the stage at.
Raised(at) == [kind |-> "raised", rc |-> 1, at |-> at]

\* sys.exit(main()): the exit status of the process.
ExitStatus(r) == IF r.kind = "returned" THEN r.rc ELSE 1

Init ==
    /\ fs \in MainWorkspaces
    /\ cacheDir = FALSE
    /\ cache = <<>>
    /\ patchFlag = FALSE
    /\ codegenTargets \in {"original", "absent"}
    /\ codegenBackup = "absent"
    /\ NoInvocation
    /\ last = NoOp
    /\ called = {}

\* main() up to the try: the command line and the environment are read.
Start(a, no_prompt_env, existing, driverExists) ==
    /\ pc = "idle"
    /\ pc' = "wizard"
    /\ args' = a
    /\ no_prompt' = (a.no_prompt \/ no_prompt_env)
    /\ sentinels' = existing
    /\ driver' = driverExists
    /\ codegen_patch_applied' = FALSE
    /\ something_to_build' = TRUE
    /\ UNCHANGED <<diskVars, hash_cache_enabled, changed, projects, idx,
                   result, log, directVars>>

\* The first-build wizard is not entered.
SkipWizard ==
    /\ pc = "wizard"
    /\ ~(looks_like_fresh_clone(sentinels) /\ ~no_prompt)
    /\ pc' = "hash_setup"
    /\ UNCHANGED <<diskVars, args, no_prompt, sentinels, driver,
                   hash_cache_enabled, codegen_patch_applied,
                   something_to_build, changed, projects, idx, result, log,
                   directVars>>

\* The first-build wizard: two questions, answered hashYes and patchYes.
Wizard(hashYes, patchYes) ==
    /\ pc = "wizard"
    /\ looks_like_fresh_clone(sentinels) /\ ~no_prompt
    /\ cacheDir' = (cacheDir \/ hashYes)
    /\ patchFlag' = (patchFlag \/ patchYes)
    /\ log' = [log EXCEPT !.prompts = 2]
    /\ pc' = "hash_setup"
    /\ UNCHANGED <<fs, cache, codegenTargets, codegenBackup, args, no_prompt,
                   sentinels, driver, hash_cache_enabled,
                   codegen_patch_applied, something_to_build, changed,
                   projects, idx, result, directVars>>

\* input() fails (end of input) at question number asked; the first
\* question, when asked = 2, was answered hashYes.
WizardInputFails(asked, hashYes) ==
    /\ pc = "wizard"
    /\ looks_like_fresh_clone(sentinels) /\ ~no_prompt
    /\ cacheDir' = (cacheDir \/ (asked = 2 /\ hashYes))
    /\ log' = [log EXCEPT !.prompts = asked]
    /\ result' = Raised("wizard")
    /\ pc' = "finally"
    /\ UNCHANGED <<fs, cache, patchFlag, codegenTargets, codegenBackup, args,
                   no_prompt, sentinels, driver, hash_cache_enabled,
                   codegen_patch_applied, something_to_build, changed,
                   projects, idx, directVars>>

\* "Hash cache set up".
HashSetup ==
    /\ pc = "hash_setup"
    /\ hash_cache_enabled' = (cacheDir \/ args.enable_hash_cache)
    /\ IF args.enable_hash_cache /\ ~cacheDir
       THEN /\ cacheDir' = TRUE
            /\ cache' = init_hash_cache(fs, cache)
            /\ log' = [log EXCEPT !.init_cache = 1,
                                  !.hashes = Len(find_all_csprojs(fs)),
                                  !.cache_writes = Len(find_all_csprojs(fs))]
       ELSE UNCHANGED <<cacheDir, cache, log>>
    /\ pc' = "codegen"
    /\ UNCHANGED <<fs, patchFlag, codegenTargets, codegenBackup, args,
                   no_prompt, sentinels, driver, codegen_patch_applied,
                   something_to_build, changed, projects, idx, result,
                   directVars>>

\* apply_codegen_patch(): whether it replaces CodeGen.Targets.
PatchApplies(flag, srcExists, tgt) == flag /\ srcExists /\ tgt # "absent"

\* A codegen stage that drops the value apply_codegen_patch() returns.
CodegenUnrecorded(srcExists) ==
    /\ pc = "codegen"
    /\ patchFlag' = (patchFlag \/ args.enable_codegen_patch)
    /\ codegen_patch_applied' = FALSE
    /\ IF PatchApplies(patchFlag', srcExists, codegenTargets)
       THEN /\ codegenBackup' = codegenTargets
            /\ codegenTargets' = "patched"
       ELSE UNCHANGED <<codegenTargets, codegenBackup>>
    /\ pc' = "format"
    /\ UNCHANGED <<fs, cacheDir, cache, args, no_prompt, sentinels, driver,
                   hash_cache_enabled, something_to_build, changed, projects,
                   idx, result, log, directVars>>

\* "Enable codegen patch" and "Apply patch if marker exists"; srcExists is
\* whether CODEGEN_PATCH_SRC exists.
Codegen(srcExists) ==
    /\ pc = "codegen"
    /\ patchFlag' = (patchFlag \/ args.enable_codegen_patch)
    /\ codegen_patch_applied' = PatchApplies(patchFlag', srcExists, codegenTargets)
    /\ IF codegen_patch_applied'
       THEN /\ codegenBackup' = codegenTargets
            /\ codegenTargets' = "patched"
       ELSE UNCHANGED <<codegenTargets, codegenBackup>>
    /\ pc' = "format"
    /\ UNCHANGED <<fs, cacheDir, cache, args, no_prompt, sentinels, driver,
                   hash_cache_enabled, something_to_build, changed, projects,
                   idx, result, log, directVars>>

\* A format stage whose return value main() does not look at.
FormatIgnoringRc(ok) ==
    /\ pc = "format"
    /\ IF ~args.format \/ ~driver
       THEN /\ pc' = "build"
            /\ UNCHANGED <<result, log>>
       ELSE /\ log' = [log EXCEPT !.format_runs = @ + 1]
            /\ IF ok
               THEN pc' = "build" /\ UNCHANGED result
               ELSE pc' = "finally" /\ result' = Raised("format")
    /\ UNCHANGED <<diskVars, args, no_prompt, sentinels, driver,
                   hash_cache_enabled, codegen_patch_applied,
                   something_to_build, changed, projects, idx, directVars>>

\* "Format": format() when --format was given.
Format(ok) ==
    /\ pc = "format"
    /\ IF ~args.format
       THEN /\ pc' = "build"
            /\ UNCHANGED <<result, log>>
       ELSE IF ~driver
       THEN /\ result' = Returned(1, "format")
            /\ pc' = "finally"
            /\ UNCHANGED log
       ELSE /\ log' = [log EXCEPT !.format_runs = @ + 1]
            /\ IF ok
               THEN pc' = "build" /\ UNCHANGED result
               ELSE pc' = "finally" /\ result' = Raised("format")
    /\ UNCHANGED <<diskVars, args, no_prompt, sentinels, driver,
                   hash_cache_enabled, codegen_patch_applied,
                   something_to_build, changed, projects, idx, directVars>>

\* `rc = full_build(); return rc`; ok is whether the three external runs
\* (build, build-shaders, build-content) all exit with 0.
FullBuild(ok) ==
    /\ IF ~driver
       THEN /\ result' = Returned(1, "full_build")
            /\ UNCHANGED log
       ELSE /\ log' = [log EXCEPT !.full_builds = @ + 1]
            /\ result' = IF ok THEN Returned(0, "full_build") ELSE Raised("full_build")
    /\ pc' = "finally"
    /\ UNCHANGED <<diskVars, args, no_prompt, sentinels, driver,
                   hash_cache_enabled, codegen_patch_applied,
                   something_to_build, changed, projects, idx, directVars>>

\* "Forced full build"
ForcedFullBuild(ok) ==
    /\ pc = "build"
    /\ args.full
    /\ FullBuild(ok)

\* "Auto full build if looks like never built"
AutoFullBuild(ok) ==
    /\ pc = "build"
    /\ ~args.full
    /\ ~args.no_auto_full /\ looks_like_fresh_clone(sentinels)
    /\ FullBuild(ok)

\* A decision that forgets the forced full build.
IncrementalDespiteFull ==
    /\ pc = "build"
    /\ ~(~args.no_auto_full /\ looks_like_fresh_clone(sentinels))

\* Neither full build is taken.
Incremental ==
    /\ pc = "build"
    /\ ~args.full
    /\ ~(~args.no_auto_full /\ looks_like_fresh_clone(sentinels))

\* `projects = find_all_csprojs()`, and the test `if not projects`.
SelectAll ==
    /\ Incremental
    /\ hash_cache_enabled
    /\ projects' = find_all_csprojs(fs)
    /\ something_to_build' = (projects' # <<>>)
    /\ idx' = 1
    /\ pc' = "loop"
    /\ UNCHANGED <<diskVars, args, no_prompt, sentinels, driver,
                   hash_cache_enabled, codegen_patch_applied, changed, result,
                   log, directVars>>

\* `changed = git_changed_files()` printing out, then the owners, and the
\* test `if not projects`.
SelectOwners(out) ==
    /\ Incremental
    /\ ~hash_cache_enabled
    /\ changed' = git_changed_files(out)
    /\ projects' = IF changed' = <<>> THEN <<>> ELSE find_csproj_owners(changed', fs)
    /\ something_to_build' = (projects' # <<>>)
    /\ log' = [log EXCEPT !.git_status = @ + 1,
                          !.owner_lookups = IF changed' = <<>> THEN @ ELSE @ + 1]
    /\ idx' = 1
    /\ pc' = "loop"
    /\ UNCHANGED <<diskVars, args, no_prompt, sentinels, driver,
                   hash_cache_enabled, codegen_patch_applied, result,
                   directVars>>

\* `git status` exits nonzero.
GitFails ==
    /\ Incremental
    /\ ~hash_cache_enabled
    /\ log' = [log EXCEPT !.git_status = @ + 1]
    /\ result' = Raised("git")
    /\ pc' = "finally"
    /\ UNCHANGED <<diskVars, args, no_prompt, sentinels, driver,
                   hash_cache_enabled, codegen_patch_applied,
                   something_to_build, changed, projects, idx, directVars>>

\* The loop `for p in projects` has a unit left.
InLoop ==
    /\ pc = "loop"
    /\ something_to_build
    /\ idx <= Len(projects)

\* What one call of should_build_hash_cache adds to the log.
GateLog(l, p, r) ==
    [l EXCEPT !.hashes = @ + 1,
              !.cache_reads = IF HasRecord(cache, p) THEN @ + 1 ELSE @,
              !.cache_writes = IF r.wrote THEN @ + 1 ELSE @]

\* An iteration that skips its unit: "SKIPPING (hash match)".
SkipUnit ==
    /\ InLoop
    /\ hash_cache_enabled
    /\ LET p == projects[idx]
           r == should_build_hash_cache(p, fs, cache)
       IN  /\ ~r.ret
           /\ cache' = r.cache
           /\ log' = [GateLog(log, p, r) EXCEPT !.skipped = Append(@, p)]
    /\ idx' = idx + 1
    /\ UNCHANGED <<fs, cacheDir, patchFlag, codegenTargets, codegenBackup, pc,
                   args, no_prompt, sentinels, driver, hash_cache_enabled,
                   codegen_patch_applied, something_to_build, changed,
                   projects, result, directVars>>

\* An iteration that builds every unit, whatever the gate says.
BuildUnitUngated(ok) ==
    /\ InLoop
    /\ LET p == projects[idx]
       IN  /\ log' = [log EXCEPT !.built = Append(@, p)]
           /\ UNCHANGED cache
    /\ IF ok
       THEN idx' = idx + 1 /\ UNCHANGED <<pc, result>>
       ELSE pc' = "finally" /\ result' = Raised("build") /\ UNCHANGED idx
    /\ UNCHANGED <<fs, cacheDir, patchFlag, codegenTargets, codegenBackup,
                   args, no_prompt, sentinels, driver, hash_cache_enabled,
                   codegen_patch_applied, something_to_build, changed,
                   projects, directVars>>

\* An iteration that goes on after a failed build.
BuildUnitKeepGoing(ok) ==
    /\ InLoop
    /\ LET p == projects[idx]
           r == should_build_hash_cache(p, fs, cache)
       IN  IF hash_cache_enabled
           THEN /\ r.ret
                /\ cache' = r.cache
                /\ log' = [GateLog(log, p, r) EXCEPT !.built = Append(@, p)]
           ELSE /\ log' = [log EXCEPT !.built = Append(@, p)]
                /\ UNCHANGED cache
    /\ idx' = idx + 1
    /\ result' = IF ok THEN result ELSE Raised("build")
    /\ UNCHANGED <<fs, cacheDir, patchFlag, codegenTargets, codegenBackup, pc,
                   args, no_prompt, sentinels, driver, hash_cache_enabled,
                   codegen_patch_applied, something_to_build, changed,
                   projects, directVars>>

\* An iteration that reaches build_project(p); ok is whether the external
\* build exits with 0.
BuildUnit(ok) ==
    /\ InLoop
    /\ LET p == projects[idx]
           r == should_build_hash_cache(p, fs, cache)
       IN  IF hash_cache_enabled
           THEN /\ r.ret
                /\ cache' = r.cache
                /\ log' = [GateLog(log, p, r) EXCEPT !.built = Append(@, p)]
           ELSE /\ log' = [log EXCEPT !.built = Append(@, p)]
                /\ UNCHANGED cache
    /\ IF ok
       THEN idx' = idx + 1 /\ UNCHANGED <<pc, result>>
       ELSE pc' = "finally" /\ result' = Raised("build") /\ UNCHANGED idx
    /\ UNCHANGED <<fs, cacheDir, patchFlag, codegenTargets, codegenBackup,
                   args, no_prompt, sentinels, driver, hash_cache_enabled,
                   codegen_patch_applied, something_to_build, changed,
                   projects, directVars>>

\* Nothing to build, or the loop is over.
LoopDone ==
    /\ pc = "loop"
    /\ ~something_to_build \/ idx > Len(projects)
    /\ pc' = "test"
    /\ UNCHANGED <<diskVars, args, no_prompt, sentinels, driver,
                   hash_cache_enabled, codegen_patch_applied,
                   something_to_build, changed, projects, idx, result, log,
                   directVars>>

\* test() when --test was given, then `return 0`.
Test(ok) ==
    /\ pc = "test"
    /\ IF ~args.test
       THEN result' = Returned(0, "end") /\ UNCHANGED log
       ELSE IF ~driver
       THEN result' = Returned(1, "test") /\ UNCHANGED log
       ELSE /\ log' = [log EXCEPT !.test_runs = @ + 1]
            /\ result' = IF ok THEN Returned(0, "end") ELSE Raised("test")
    /\ pc' = "finally"
    /\ UNCHANGED <<diskVars, args, no_prompt, sentinels, driver,
                   hash_cache_enabled, codegen_patch_applied,
                   something_to_build, changed, projects, idx, directVars>>

\* A clean-up that runs only when the try region did not raise.
FinallyUnlessRaised ==
    /\ pc = "finally"
    /\ IF codegen_patch_applied /\ codegenBackup # "absent"
       THEN codegenTargets' = codegenBackup /\ codegenBackup' = "absent"
       ELSE UNCHANGED <<codegenTargets, codegenBackup>>
    /\ log' = IF result.kind = "raised" THEN log
              ELSE [log EXCEPT !.restores = IF codegen_patch_applied THEN @ + 1 ELSE @,
                               !.case_fixes = @ + 1,
                               !.owner_fixes = @ + 1]
    /\ pc' = "done"
    /\ UNCHANGED <<fs, cacheDir, cache, patchFlag, args, no_prompt, sentinels,
                   driver, hash_cache_enabled, codegen_patch_applied,
                   something_to_build, changed, projects, idx, result,
                   directVars>>

\* The finally block: restore_codegen_patch() if the patch was applied,
\* fix_addon_code_case(), fix_ownership_since(start_time).
Finally ==
    /\ pc = "finally"
    /\ IF codegen_patch_applied /\ codegenBackup # "absent"
       THEN codegenTargets' = codegenBackup /\ codegenBackup' = "absent"
       ELSE UNCHANGED <<codegenTargets, codegenBackup>>
    /\ log' = [log EXCEPT !.restores = IF codegen_patch_applied THEN @ + 1 ELSE @,
                          !.case_fixes = @ + 1,
                          !.owner_fixes = @ + 1]
    /\ pc' = "done"
    /\ UNCHANGED <<fs, cacheDir, cache, patchFlag, args, no_prompt, sentinels,
                   driver, hash_cache_enabled, codegen_patch_applied,
                   something_to_build, changed, projects, idx, result,
                   directVars>>

\* The process ends with ExitStatus(result); the disk stays as it is.
Exit ==
    /\ pc = "done"
    /\ pc' = "idle"
    /\ args' = NoArgs
    /\ no_prompt' = FALSE
    /\ sentinels' = {}
    /\ driver' = FALSE
    /\ hash_cache_enabled' = FALSE
    /\ codegen_patch_applied' = FALSE
    /\ something_to_build' = TRUE
    /\ changed' = <<>>
    /\ projects' = <<>>
    /\ idx' = 0
    /\ result' = NoResult
    /\ log' = EmptyLog
    /\ UNCHANGED <<diskVars, directVars>>

Next ==
    \/ /\ pc = "idle"
       /\ \E a \in ArgSets, e \in BOOLEAN, s \in SentinelStates, d \in BOOLEAN :
             Start(a, e, s, d)
    \/ SkipWizard
    \/ \E h \in BOOLEAN, p \in BOOLEAN : Wizard(h, p)
    \/ \E asked \in 1..2, h \in BOOLEAN : WizardInputFails(asked, h)
    \/ HashSetup
    \/ \E s \in BOOLEAN : Codegen(s)
    \/ \E ok \in BOOLEAN : Format(ok)
    \/ \E ok \in BOOLEAN : ForcedFullBuild(ok)
    \/ \E ok \in BOOLEAN : AutoFullBuild(ok)
    \/ SelectAll
    \/ \E out \in GitStatusOutputs : SelectOwners(out)
    \/ GitFails
    \/ SkipUnit
    \/ \E ok \in BOOLEAN : BuildUnit(ok)
    \/ LoopDone
    \/ \E ok \in BOOLEAN : Test(ok)
    \/ Finally
    \/ Exit

Spec == Init /\ [][Next]_vars

(***************************************************************************)
(* Claims on the cache operations, checked under SpecCache                 *)
(***************************************************************************)

\* C3: should_build_hash_cache(U) compares, then writes: it returns "no
\* build needed" and leaves the cache as it is exactly when a record of U
\* exists and equals the fingerprint computed now; otherwise it returns
\* "build needed" and U's record becomes that fingerprint, every other
\* record staying as it was.
C3_CompareThenWrite ==
    [][last'.op = "should_build" =>
        LET u        == last'.arg
            new_hash == compute_project_hash(u, fs)
        IN  IF HasRecord(cache, u) /\ StoredHash(cache, u) = new_hash
            THEN last'.ret = FALSE /\ cache' = cache
            ELSE /\ last'.ret = TRUE
                 /\ HasRecord(cache', u)
                 /\ cache'[cache_file_for(u)] = new_hash \o <<"\n">>
                 /\ DOMAIN cache' = DOMAIN cache \cup {cache_file_for(u)}
                 /\ \A g \in DOMAIN cache \ {cache_file_for(u)} : cache'[g] = cache[g]
    ]_vars

\* A call that found the record equal to the fingerprint: "no build needed".
C3_Witness ==
    /\ last.op = "should_build"
    /\ last.ret = FALSE
    /\ HasRecord(cache, last.arg)
    /\ StoredHash(cache, last.arg) = compute_project_hash(last.arg, fs)

\* C4: no self-invalidation: for every unit U that should_build_hash_cache
\* or force_update_hash was called on, with no file mutated since (calls on
\* other units allowed), the next should_build_hash_cache(U) returns "no
\* build needed" and writes nothing.
C4_NoSelfInvalidation ==
    \A u \in called :
        LET r == should_build_hash_cache(u, fs, cache)
        IN  r.ret = FALSE /\ r.cache = cache

\* p is a shared-config file in a directory between u's directory and ROOT,
\* inclusive.
IsAncestorConfig(p, u) ==
    /\ Name(p) \in {DirectoryBuildProps, DirectoryBuildTargets}
    /\ Len(p) <= Len(u)
    /\ Parent(p) = SubSeq(u, 1, Len(p) - 1)

\* C5, as stated: for every unit U with a stored record, an edit of the
\* content of a shared-config file of an ancestor directory of U makes the
\* next should_build_hash_cache(U) return "build needed".
C5_AnyRecord ==
    [][last'.op = "edit" =>
        \A u \in Units(fs) :
            (HasRecord(cache, u) /\ IsAncestorConfig(last'.arg, u))
            => should_build_hash_cache(u, fs', cache').ret = TRUE
    ]_vars

\* C5, amended: for every unit U whose stored record equals U's fingerprint
\* before the edit, an edit of the content of a shared-config file of an
\* ancestor directory of U makes the next should_build_hash_cache(U) return
\* "build needed".
C5_CurrentRecord ==
    [][last'.op = "edit" =>
        \A u \in Units(fs) :
            (/\ HasRecord(cache, u)
             /\ StoredHash(cache, u) = compute_project_hash(u, fs)
             /\ IsAncestorConfig(last'.arg, u))
            => should_build_hash_cache(u, fs', cache').ret = TRUE
    ]_vars

\* Directory.Build.props of ROOT, two levels above the unit a/b, was edited
\* while the record of a/b was current; a/b now needs a build.
C5_Witness ==
    /\ last.op = "edit"
    /\ last.arg = PropsRoot
    /\ HasRecord(cache, UnitAB)
    /\ StoredHash(cache, UnitAB)
         = compute_project_hash(UnitAB, [fs EXCEPT ![PropsRoot] = last.old])
    /\ should_build_hash_cache(UnitAB, fs, cache).ret = TRUE

(***************************************************************************)
(* SpecOwners: find_csproj_owners on any ChangeSet, on workspaces with     *)
(* zero, one or two manifests per directory and one in ROOT.               *)
(***************************************************************************)

\* A ChangeSet holds at most MaxChanged paths.
MaxChanged == 3

OwnerFixedFiles == {SourceAB, SourceABD, SourceA, UnitC}

OwnerOptionalFiles == {UnitAB, UnitAB_T, UnitRoot}

OwnerWorkspaces ==
    UNION { [OwnerFixedFiles \cup opt -> {ContentList[1]}] :
                opt \in SUBSET OwnerOptionalFiles }

\* The paths a ChangeSet is drawn from, as git prints them.
ChangeUniverse ==
    {Join(p, <<"/">>) : p \in {SourceAB, SourceABD, SourceA, DeletedC, UnitAB, UnitC}}

ChangeSets == {C \in SUBSET ChangeUniverse : Cardinality(C) <= MaxChanged}

InitOwners ==
    /\ fs \in OwnerWorkspaces
    /\ cacheDir = FALSE
    /\ cache = <<>>
    /\ patchFlag = FALSE
    /\ codegenTargets = "original"
    /\ codegenBackup = "absent"
    /\ NoInvocation
    /\ last = NoOp
    /\ called = {}

\* find_csproj_owners(C) for a ChangeSet C.
ResolveOwners(C) ==
    /\ changed' = SortedStrs(C)
    /\ projects' = find_csproj_owners(changed', fs)
    /\ last' = [op |-> "owners", arg |-> <<>>, ret |-> FALSE, old |-> <<>>]
    /\ UNCHANGED <<diskVars, pc, args, no_prompt, sentinels, driver,
                   hash_cache_enabled, codegen_patch_applied,
                   something_to_build, idx, result, log, called>>

NextOwners == \E C \in ChangeSets : ResolveOwners(C)

SpecOwners == InitOwners /\ [][NextOwners]_vars

\* The manifests directly in directory d.
ManifestsIn(d, files) ==
    {q \in DOMAIN files : Parent(q) = d /\ EndsWith(Name(q), DOT_CSPROJ)}

\* M is the owner of the existing path f: the lexicographically first
\* manifest of the nearest directory, from f's own directory upwards and
\* below ROOT, that holds a manifest.
IsOwnerOf(M, f, files) ==
    \E n \in 1..(Len(f) - 1) :
        LET d == SubSeq(f, 1, n)
        IN  /\ M \in ManifestsIn(d, files)
            /\ \A M2 \in ManifestsIn(d, files) : M2 = M \/ StrLess(Name(M), Name(M2))
            /\ \A k \in (n + 1)..(Len(f) - 1) : ManifestsIn(SubSeq(f, 1, k), files) = {}

\* C10: find_csproj_owners(C) is sorted and free of duplicates, and holds
\* exactly the owners of the paths of C that exist on disk; a deleted path,
\* or one with no manifest between its directory and ROOT, adds nothing.
C10_OwnersExact ==
    last.op = "owners" =>
        /\ \A m, n \in 1..Len(projects) : m < n => PathLess(projects[m], projects[n])
        /\ \A M \in DOMAIN fs \cup Range(projects) :
              M \in Range(projects)
              <=> \E f \in Range(changed) :
                     /\ Exists(ParsePath(f), fs)
                     /\ IsOwnerOf(M, ParsePath(f), fs)

\* A ChangeSet with a deleted path, a path owned by the first of two
\* manifests of a/b, and a path whose walk ends at ROOT; one owner results.
C10_Witness ==
    /\ last.op = "owners"
    /\ {UnitAB, UnitAB_T, UnitRoot} \subseteq DOMAIN fs
    /\ Range(changed) = {Join(p, <<"/">>) : p \in {SourceABD, SourceA, DeletedC}}
    /\ projects = <<UnitAB_T>>

(***************************************************************************)
(* Claims on main(), checked under Spec                                    *)
(***************************************************************************)

\* C1: on every path out of the try region of main() (it completes, it
\* returns early after format, full_build or test, or an external run or
\* input raises) control is in the finally block, and when the invocation
\* ends fix_addon_code_case and fix_ownership_since have each run exactly
\* once; before the finally block neither has run.
C1_PostActionsOnce ==
    /\ result.kind # "none" => pc \in {"finally", "done"}
    /\ pc = "done" => result.kind # "none" /\ log.case_fixes = 1 /\ log.owner_fixes = 1
    /\ pc # "done" => log.case_fixes = 0 /\ log.owner_fixes = 0

\* An invocation that ended because `git status` failed, both passes run.
C1_Witness ==
    /\ pc = "done"
    /\ result = Raised("git")
    /\ log.case_fixes = 1
    /\ log.owner_fixes = 1

\* C2: when the external build of a scheduled unit exits nonzero, the
\* failure leaves the loop at once: the failed unit is the last one built
\* and was built once, no later unit is built or skipped, no test runs, the
\* exit status is nonzero, and both clean-up passes have run at the end.
C2_BuildFailureIsFatal ==
    (result.kind = "raised" /\ result.at = "build") =>
        /\ pc \in {"finally", "done"}
        /\ idx \in 1..Len(projects)
        /\ log.built # <<>>
        /\ log.built[Len(log.built)] = projects[idx]
        /\ Cardinality({i \in 1..Len(log.built) : log.built[i] = projects[idx]}) = 1
        /\ Range(log.built) \cup Range(log.skipped) = {projects[j] : j \in 1..idx}
        /\ log.test_runs = 0
        /\ ExitStatus(result) # 0
        /\ pc = "done" => log.case_fixes = 1 /\ log.owner_fixes = 1

\* The build of the first of three candidates failed: the other two were
\* not built, the invocation ended with status 1 after the clean-up.
C2_Witness ==
    /\ pc = "done"
    /\ result = Raised("build")
    /\ Len(projects) = 3
    /\ idx = 1
    /\ log.built = <<projects[1]>>
    /\ ExitStatus(result) = 1
    /\ log.case_fixes = 1

\* The full-build path is due: --full, or a fresh clone with auto-full on.
FullMode(a, existing) ==
    a.full \/ (Cardinality(existing \cap (1..5)) < 4 /\ ~a.no_auto_full)

\* C6, as stated: in an invocation with --full, or with a fresh clone and
\* auto-full not disabled, exactly one full build is performed and no
\* ChangeSet is read, no owner resolved, no fingerprint computed and no
\* record read or written.
C6_FullBuildBypassesAll ==
    (pc = "done" /\ FullMode(args, sentinels)) =>
        /\ log.full_builds = 1
        /\ log.git_status = 0
        /\ log.owner_lookups = 0
        /\ log.hashes = 0
        /\ log.cache_reads = 0
        /\ log.cache_writes = 0

\* C6, amended: in such an invocation git_changed_files, find_csproj_owners
\* and should_build_hash_cache are never called, no record is read and no
\* unit is built or skipped individually; fingerprints are computed and
\* records written only by init_hash_cache, in the hash-cache set-up, exactly
\* when --enable-hash-cache is given and the cache directory does not exist
\* there; full_build() is what the build stage does, and it performs the one
\* full build exactly when the driver project exists.
C6_FullBuildBypassesIncremental ==
    [][(pc' # "idle" /\ FullMode(args', sentinels')) =>
        /\ log'.git_status = 0
        /\ log'.owner_lookups = 0
        /\ log'.cache_reads = 0
        /\ log'.built = <<>>
        /\ log'.skipped = <<>>
        /\ pc' \notin {"loop", "test"}
        /\ IF pc = "hash_setup" /\ args.enable_hash_cache /\ ~cacheDir
           THEN /\ log'.init_cache = 1
                /\ log'.hashes = Cardinality(Units(fs))
                /\ log'.cache_writes = Cardinality(Units(fs))
                /\ DOMAIN cache' = {cache_file_for(u) : u \in Units(fs)}
           ELSE /\ log'.init_cache = log.init_cache
                /\ log'.hashes = log.hashes
                /\ log'.cache_writes = log.cache_writes
                /\ cache' = cache
        /\ IF pc = "build"
           THEN /\ result'.at = "full_build"
                /\ pc' = "finally"
                /\ log'.full_builds = IF driver THEN 1 ELSE 0
           ELSE log'.full_builds = log.full_builds
    ]_vars

\* --full with --enable-hash-cache on a workspace without a cache directory:
\* the records were initialised, then the one full build ran.
C6_Witness ==
    /\ pc = "done"
    /\ args.full /\ args.enable_hash_cache
    /\ log.init_cache = 1
    /\ log.hashes = Cardinality(Units(fs))
    /\ log.full_builds = 1
    /\ result = Returned(0, "full_build")

\* C7: the fresh-clone test is true exactly when fewer than 4 of the 5
\* sentinels exist; when it is true and auto-full is not disabled, the build
\* stage calls full_build() and no unit is ever built or skipped
\* individually, no ChangeSet is read, in either cache mode; when it is
\* false and --full is not given, the build stage runs no full build.
C7_FreshForcesFull ==
    [][pc' # "idle" =>
        /\ \A S \in SUBSET (1..5) : looks_like_fresh_clone(S) <=> Cardinality(S) < 4
        /\ (Cardinality(sentinels') < 4 /\ ~args'.no_auto_full) =>
              /\ log'.built = <<>>
              /\ log'.skipped = <<>>
              /\ log'.git_status = 0
              /\ pc' \notin {"loop", "test"}
              /\ pc = "build" =>
                    /\ result'.at = "full_build"
                    /\ log'.full_builds = IF driver THEN 1 ELSE 0
        /\ (Cardinality(sentinels') >= 4 /\ ~args'.full) =>
              /\ log'.full_builds = 0
              /\ result'.at # "full_build"
    ]_vars

\* Three sentinels exist, fingerprint mode is on, --full is not given: the
\* full build ran and no unit was gated or built.
C7_Witness ==
    /\ pc = "done"
    /\ Cardinality(sentinels) = 3
    /\ ~args.full /\ ~args.no_auto_full
    /\ hash_cache_enabled
    /\ log.full_builds = 1
    /\ log.built = <<>>
    /\ log.hashes = 0

\* The record of unit p holds p's fingerprint as the files are now.
RecordIsCurrent(p, files, records) ==
    /\ cache_file_for(p) \in DOMAIN records
    /\ Strip(records[cache_file_for(p)]) = compute_project_hash(p, files)

\* C8: on the incremental path, with fingerprint mode on, the candidates are
\* all the manifests of the workspace (no ChangeSet is read) and a candidate
\* is built iff its record is missing or differs from its fingerprint, and
\* skipped otherwise; with fingerprint mode off, the candidates are exactly
\* the owners of the ChangeSet, each one reached is built, no fingerprint is
\* computed and no record is read or written.
C8_CandidatesByMode ==
    [][/\ (pc = "build" /\ pc' = "loop") =>
            IF hash_cache_enabled
            THEN /\ Range(projects') = {p \in DOMAIN fs : EndsWith(Name(p), DOT_CSPROJ)}
                 /\ log' = log
                 /\ changed' = <<>>
            ELSE /\ log'.git_status = 1
                 /\ \A M \in DOMAIN fs \cup Range(projects') :
                       M \in Range(projects')
                       <=> \E f \in Range(changed') :
                              /\ Exists(ParsePath(f), fs)
                              /\ IsOwnerOf(M, ParsePath(f), fs)
       /\ (pc = "loop" /\ idx <= Len(projects) /\ projects # <<>>) =>
            LET p       == projects[idx]
                builds  == log'.built = Append(log.built, p)
                skips   == log'.skipped = Append(log.skipped, p)
                current == RecordIsCurrent(p, fs, cache)
            IN  IF hash_cache_enabled
                THEN /\ builds <=> ~current
                     /\ skips <=> current
                     /\ builds => log'.skipped = log.skipped
                     /\ skips => log'.built = log.built /\ cache' = cache
                     /\ log'.hashes = log.hashes + 1
                ELSE /\ builds
                     /\ log'.skipped = <<>>
       /\ (pc' \in {"loop", "test"} /\ ~hash_cache_enabled') =>
            /\ log'.hashes = 0
            /\ log'.cache_reads = 0
            /\ log'.cache_writes = 0
            /\ cache' = cache
    ]_vars

\* A fingerprint-mode invocation over three candidates that built two of
\* them and skipped the third.
C8_Witness ==
    /\ pc = "done"
    /\ hash_cache_enabled
    /\ result = Returned(0, "end")
    /\ Len(projects) = 3
    /\ Len(log.built) = 2
    /\ Len(log.skipped) = 1

\* s is strictly ascending in the order of Paths.
Ascending(s) == \A m, n \in 1..Len(s) : m < n => PathLess(s[m], s[n])

\* C9: the candidates are in ascending manifest-path order without
\* duplicates and are processed in that order, one per iteration; every
\* processed unit was either built or skipped, never both, and no unit was
\* built twice.
C9_OrderedOnce ==
    [][/\ Ascending(projects')
       /\ Ascending(log'.built)
       /\ Ascending(log'.skipped)
       /\ Range(log'.built) \cap Range(log'.skipped) = {}
       /\ pc' \in {"loop", "test"} =>
             /\ Range(log'.built) \cup Range(log'.skipped)
                  = {projects'[j] : j \in 1..(idx' - 1)}
             /\ Len(log'.built) + Len(log'.skipped) = idx' - 1
       /\ (pc = "loop" /\ idx <= Len(projects) /\ projects # <<>>) =>
             /\ \/ log'.built = Append(log.built, projects[idx])
                   /\ log'.skipped = log.skipped
                \/ log'.skipped = Append(log.skipped, projects[idx])
                   /\ log'.built = log.built
             /\ pc' = "loop" => idx' = idx + 1
             /\ projects' = projects
    ]_vars

\* Three candidates were processed in order: the first two built, the third
\* skipped.
C9_Witness ==
    /\ pc = "test"
    /\ Len(projects) = 3
    /\ idx = 4
    /\ log.built = <<projects[1], projects[2]>>
    /\ log.skipped = <<projects[3]>>
    /\ PathLess(projects[1], projects[2]) /\ PathLess(projects[2], projects[3])

(***************************************************************************)
(* SpecChanges: git_changed_files on any status output of up to           *)
(* MaxEntries entries.                                                     *)
(***************************************************************************)

\* A status output holds at most MaxEntries entries.
MaxEntries == 3

\* The path strings of the entries, as git prints them: a source file; a
\* file in the ignored directory .vs at the top; a file in the ignored
\* directory obj below a; a file with a suffix that is not relevant; a log
\* file; a directory placeholder; a file in .vs below a.
ChangedPathStrings ==
    { Join(SourceAB, <<"/">>),
      <<".", "v", "s", "/", "x", ".", "j", "s", "o", "n">>,
      <<"a", "/", "o", "b", "j", "/", "y", ".", "c", "s">>,
      <<"n", "/", "r", ".", "m", "d">>,
      <<"a", "/", "x", ".", "l", "o", "g">>,
      <<"a", "/", "b", "/">>,
      <<"a", "/", ".", "v", "s", "/", "x", ".", "j", "s", "o", "n">> }

\* The entries a status output is made of: the paths above behind a status
\* prefix, an entry shorter than 4 bytes and an empty one.
EntryUniverse ==
    { <<" ", "M", " ">> \o p : p \in ChangedPathStrings }
    \cup { <<"?", "?", " ">> \o Join(SourceAB, <<"/">>), <<" ", "M", " ">>, <<>> }

StatusOutputs ==
    { SortedStrs(E) : E \in {E \in SUBSET EntryUniverse : Cardinality(E) <= MaxEntries} }

InitChanges ==
    /\ fs \in MainWorkspaces
    /\ cacheDir = FALSE
    /\ cache = <<>>
    /\ patchFlag = FALSE
    /\ codegenTargets = "original"
    /\ codegenBackup = "absent"
    /\ NoInvocation
    /\ last = NoOp
    /\ called = {}

\* git_changed_files() when `git status` prints the entries out.
ReadStatus(out) ==
    /\ changed' = git_changed_files(out)
    /\ last' = [op |-> "status", arg |-> out, ret |-> FALSE, old |-> <<>>]
    /\ UNCHANGED <<diskVars, pc, args, no_prompt, sentinels, driver,
                   hash_cache_enabled, codegen_patch_applied,
                   something_to_build, projects, idx, result, log, called>>

NextChanges == \E out \in StatusOutputs : ReadStatus(out)

SpecChanges == InitChanges /\ [][NextChanges]_vars

\* The segments of a path string, the last one (the file name) left out.
AncestorSegments(path) ==
    LET parts == Split(path, "/")
    IN  {parts[i] : i \in 1..(Len(parts) - 1)}

\* The path of a status entry belongs in the ChangeSet.
BelongsInChangeSet(path) ==
    /\ path # <<>>
    /\ path[Len(path)] # "/"
    /\ AncestorSegments(path) \cap IGNORE_DIRS = {}
    /\ \A suf \in IGNORE_SUFFIXES : ~EndsWith(path, suf)
    /\ \E suf \in RELEVANT_SUFFIXES : EndsWith(path, suf)

\* C11: the ChangeSet holds exactly the paths of the status entries (of 4
\* bytes or more) that are no directory placeholder, have no ancestor
\* segment, the first included, in the ignored directories, do not end in
\* an ignored suffix and end in a relevant suffix; empty and short entries
\* are skipped.
C11_ChangeSetExact ==
    last.op = "status" =>
        Range(changed)
          = { SubSeq(e, 4, Len(e)) : e \in {e \in Range(last.arg) :
                  Len(e) >= 4 /\ BelongsInChangeSet(SubSeq(e, 4, Len(e)))} }

(***************************************************************************)
(* Further claims on the cache operations, checked under SpecCache         *)
(***************************************************************************)

\* C12: cache_file_for gives distinct manifests distinct cache files, so a
\* call of should_build_hash_cache or force_update_hash on one unit leaves
\* the record of every other unit as it was.
C12_RecordsApart ==
    [][last'.op \in {"should_build", "force_update"} =>
        /\ \A u, v \in Units(fs) : u # v => cache_file_for(u) # cache_file_for(v)
        /\ \A v \in Units(fs) \ {last'.arg} :
              HasRecord(cache, v) =>
                  /\ HasRecord(cache', v)
                  /\ StoredHash(cache', v) = StoredHash(cache, v)
    ]_vars

(***************************************************************************)
(* Further claims on main(), checked under Spec                            *)
(***************************************************************************)

\* C13: once an enablement marker exists, no invocation removes it, every
\* invocation starting with it asks no question about its subsystem (the
\* hash cache question is the first of the two, the patch question the
\* second), and one that reaches the hash cache set-up with .sboxbuild_cache
\* present runs with the hash cache enabled.
C13_MarkersSettle ==
    [][/\ cacheDir => cacheDir'
       /\ patchFlag => patchFlag'
       /\ pc = "wizard" /\ cacheDir => log'.prompts = 0
       /\ pc = "wizard" /\ patchFlag => log'.prompts <= 1
       /\ pc = "hash_setup" /\ cacheDir => hash_cache_enabled'
    ]_vars

\* The first stage of the invocation that needs SboxBuild.csproj, provided
\* no exception ends the invocation before it.
FirstDriverStage(a, existing) ==
    IF a.format THEN "format"
    ELSE IF FullMode(a, existing) THEN "full_build"
    ELSE IF a.test THEN "test"
    ELSE "none"

\* C14: an invocation that reaches a stage needing SboxBuild.csproj while the
\* file is missing returns 1 from that stage: no external format, full
\* build or test run was made, no later stage ran (after format no unit is
\* selected or built, after the full build no test), the exit status is
\* nonzero, and both clean-up passes have run once.
C14_MissingDriverFatal ==
    (/\ pc = "done"
     /\ ~driver
     /\ result.kind = "returned"
     /\ FirstDriverStage(args, sentinels) # "none") =>
        /\ result = Returned(1, FirstDriverStage(args, sentinels))
        /\ ExitStatus(result) # 0
        /\ log.format_runs = 0 /\ log.full_builds = 0 /\ log.test_runs = 0
        /\ FirstDriverStage(args, sentinels) \in {"format", "full_build"} =>
              /\ log.built = <<>> /\ log.skipped = <<>>
              /\ log.git_status = 0 /\ log.owner_lookups = 0
        /\ log.case_fixes = 1 /\ log.owner_fixes = 1

\* The test stage is reached after a unit was built, and SboxBuild.csproj
\* is missing.
C14_Witness ==
    /\ pc = "done"
    /\ ~driver
    /\ args.test
    /\ log.built # <<>>
    /\ result = Returned(1, "test")
    /\ log.test_runs = 0

\* C15: in fingerprint mode, an invocation that ends because the build of a
\* unit failed does not leave that unit's record equal to the unit's
\* current fingerprint, so that the next invocation builds the unit again.
C15_FailedBuildRetried ==
    (/\ pc = "done"
     /\ hash_cache_enabled
     /\ result = Raised("build")) =>
        ~RecordIsCurrent(projects[idx], fs, cache)

\* The (normalized relative path, content bytes) pairs of the inputs of a unit.
InputPairs(csproj, files) ==
    { <<RelStr(p), files[p]>> : p \in Range(ProjectInputs(csproj, files)) }

\* C16: whenever the inputs of a unit, as the files are now, differ as a set
\* of (path, content) pairs from its inputs in another state of the
\* workspace, the two byte streams fed to the digest differ, and
\* should_build_hash_cache, called now on the record written in that other
\* state, returns True.
C16_FingerprintSensitive ==
    \A w \in Workspaces : \A u \in Units(fs) \cap Units(w) :
        InputPairs(u, w) # InputPairs(u, fs) =>
            /\ HashStream(ProjectInputs(u, w), w) # HashStream(ProjectInputs(u, fs), fs)
            /\ should_build_hash_cache(u, fs, force_update_hash(u, w, <<>>)).ret

(***************************************************************************)
(* SpecHash: compute_project_hash on any unit, for every order in which    *)
(* os.walk may yield the files of the unit's directory.                    *)
(***************************************************************************)

\* a/b/Directory.Build.props: a shared-config file inside the unit a/b.
PropsAB == << <<"a">>, <<"b">>, DirectoryBuildProps >>

HashOptionalFiles == {PropsAB, SourceABD, PropsRoot}

HashWorkspaces ==
    {w \in UNION { [FixedFiles \cup opt -> Contents] : opt \in SUBSET HashOptionalFiles } :
        \A p \in DOMAIN w \ {PropsAB} : w[p] = ContentList[1]}

\* The orders in which a walk can yield the files S.
WalkOrders(S) == {f \in [1..Cardinality(S) -> S] : Range(f) = S}

\* `inputs` before the deduplication: the manifest, the shared-config files
\* of the ancestor walk, the files of the directory walk as it yielded them.
EnumeratedInputs(csproj, walk, files) ==
    <<csproj>> \o find_directory_build_files(Parent(csproj), files) \o walk

\* The inputs hashed as they were enumerated.
inputs_as_enumerated(inputs) == inputs

\* `inputs = sorted(set(inputs))`
sorted_set(inputs) == Sorted(Range(inputs))

InitHash ==
    /\ fs \in HashWorkspaces
    /\ cacheDir = TRUE
    /\ cache = <<>>
    /\ patchFlag = FALSE
    /\ codegenTargets = "original"
    /\ codegenBackup = "absent"
    /\ NoInvocation
    /\ last = NoOp
    /\ called = {}

\* compute_project_hash(u) when the directory walk yields its files in the
\* order walk: `old` holds the files hashed, in order, `ret` the digest.
ComputeHash(u, walk) ==
    LET inputs == sorted_set(EnumeratedInputs(u, walk, fs))
    IN  /\ last' = [op |-> "hash", arg |-> u,
                    ret |-> Sha256Hex(HashStream(inputs, fs)), old |-> inputs]
        /\ called' = called \cup {u}
        /\ UNCHANGED <<diskVars, mainVars>>

NextHash ==
    \E u \in Units(fs) :
        \E walk \in WalkOrders(iter_project_inputs(Parent(u), fs)) :
            ComputeHash(u, walk)

SpecHash == InitHash /\ [][NextHash]_vars

\* C17: whatever the order of the directory walk, compute_project_hash
\* returns the one digest of the unit for the files as they are, and every
\* input file, however many routes reach it (the manifest, a
\* Directory.Build file inside the unit's directory), is hashed exactly once.
C17_OrderAndRoutesIrrelevant ==
    last.op = "hash" =>
        /\ last.ret = compute_project_hash(last.arg, fs)
        /\ \A p \in {last.arg}
                    \cup Range(find_directory_build_files(Parent(last.arg), fs))
                    \cup iter_project_inputs(Parent(last.arg), fs) :
              Cardinality({i \in 1..Len(last.old) : last.old[i] = p}) = 1

\* The unit a/b is hashed with a Directory.Build.props in its directory,
\* reached by the ancestor walk and by the directory walk, and every input
\* was hashed.
C17_Witness ==
    /\ last.op = "hash"
    /\ last.arg = UnitAB
    /\ PropsAB \in DOMAIN fs
    /\ PropsAB \in Range(find_directory_build_files(Parent(UnitAB), fs))
    /\ PropsAB \in iter_project_inputs(Parent(UnitAB), fs)
    /\ Len(last.old) = Len(ProjectInputs(UnitAB, fs))

\* C18: an invocation with --test whose build stage succeeded (the full
\* build returned 0, or the incremental stage was left without a failure)
\* has made the external test run exactly once by its end.
C18_TestAfterEveryBuild ==
    (/\ pc = "done"
     /\ args.test
     /\ driver
     /\ result = Returned(0, "full_build") \/ result.at \in {"test", "end"}) =>
        log.test_runs = 1

\* C19: at the end of an invocation in fingerprint mode that completed
\* successfully, through a full build or through the incremental path, the
\* record of every unit equals the unit's fingerprint, so that the next
\* invocation, with no file mutated, skips every unit on the incremental
\* path.
C19_SuccessLeavesNothingToBuild ==
    (/\ pc = "done"
     /\ hash_cache_enabled
     /\ result.kind = "returned"
     /\ result.rc = 0) =>
        \A u \in Units(fs) : ~should_build_hash_cache(u, fs, cache).ret

\* C20: the codegen patch is transient.  When apply_codegen_patch replaces
\* CodeGen.Targets the backup takes the content the file had; the finally
\* block of an invocation that applied the patch puts the backup's content
\* back and removes the backup; so no invocation ends, however it ends, with
\* the patched file or a backup left.  While the patch is not applied the
\* tool leaves CodeGen.Targets as it is.
C20_PatchTransient ==
    /\ [](pc \in {"done", "idle"} =>
            /\ codegenTargets # "patched"
            /\ codegenBackup = "absent")
    /\ [][/\ (pc = "codegen" /\ codegen_patch_applied') =>
                 /\ codegenBackup' = codegenTargets
                 /\ codegenTargets' = "patched"
          /\ (pc = "finally" /\ codegen_patch_applied) =>
                 /\ codegenTargets' = codegenBackup
                 /\ codegenBackup' = "absent"
          /\ (~codegen_patch_applied /\ ~codegen_patch_applied') =>
                 /\ codegenTargets' = codegenTargets
                 /\ codegenBackup' = codegenBackup
       ]_vars

\* An invocation that applied the patch ends on a propagated build failure
\* with CodeGen.Targets restored.
C20_Witness ==
    /\ pc = "done"
    /\ codegen_patch_applied
    /\ result = Raised("build")
    /\ log.restores = 1
    /\ codegenTargets = "original"
    /\ codegenBackup = "absent"

====
